---- MODULE Spec2Model ----
(***************************************************************************)
(* Model of Cookbook/models.py: the six tables of the recipe catalogue     *)
(* (Cookbook, CookbookTag, Step, Material and the two join tables), the    *)
(* ORM operations on them, Cookbook.add_tag, CookbookTag.update_cookbook_  *)
(* sum and the read-only queries of Step and Cookbook.                     *)
(*                                                                         *)
(* A table is the set of its rows; a row is a record carrying its primary  *)
(* key `id`, handed out by an auto-increment counter (seq) and never       *)
(* reused.  Requests run concurrently: every database statement of a       *)
(* method is one step, so two requests may interleave between the          *)
(* statements of add_tag and of update_cookbook_sum.                       *)
(***************************************************************************)
EXTENDS Integers, Sequences, FiniteSets, Bags, TLC

\* ---------------------------------------------------------------- bounds
MaxCookbook == 2
MaxTag      == 2
MaxStep     == 2
MaxMaterial == 2
MaxTagRow   == 2
MaxLinkRow  == 3
MaxRequest  == 2
MaxPriority == 1

Requests   == 1..MaxRequest
Priorities == 0..MaxPriority
TagNames   == {"soup", "cake"}

\* defines.MaterialType: three distinct variants
FOOD      == "FOOD"
CONDIMENT == "CONDIMENT"
TOOL      == "TOOL"
MaterialType == {FOOD, CONDIMENT, TOOL}

VARIABLES
    Cookbook,                  \* rows [id, checked]
    CookbookTag,               \* rows [id, name, priority, cookbook_sum]
    Step,                      \* rows [id, cookbook]
    Material,                  \* rows [id, type]
    TagCookbookRelationship,   \* rows [id, cookbook, tag, like, unlike]
    MaterialStepRelationship,  \* rows [id, step, material, priority]
    seq,                       \* last primary key handed out, per table
    req,                       \* per request: the statement it is at, its locals
    calls                      \* the add_tag calls completed back to back

vars == <<Cookbook, CookbookTag, Step, Material, TagCookbookRelationship,
          MaterialStepRelationship, seq, req, calls>>

tables == <<Cookbook, CookbookTag, Step, Material, TagCookbookRelationship,
            MaterialStepRelationship, seq>>

Idle == [pc |-> "idle"]
NoCalls == [n |-> 0, open |-> 0, cookbook |-> 0, tag |-> 0]

Init ==
    /\ Cookbook = {}
    /\ CookbookTag = {}
    /\ Step = {}
    /\ Material = {}
    /\ TagCookbookRelationship = {}
    /\ MaterialStepRelationship = {}
    /\ seq = [cookbook |-> 0, tag |-> 0, step |-> 0, material |-> 0,
              tcr |-> 0, msr |-> 0]
    /\ req = [r \in Requests |-> Idle]
    /\ calls = NoCalls

\* ---------------------------------------------------------------- helpers
Ids(table) == {row.id : row \in table}
Get(table, id) == CHOOSE row \in table : row.id = id

\* ------------------------------------------------------- Cookbook managers
\* models.Manager(): every row
objects == Cookbook

\* get_queryset without its filter
public_unfiltered == objects

\* CookbookPublicManager.get_queryset: super().get_queryset().filter(checked=True)
public == {c \in objects : c.checked = TRUE}

\* ------------------------------------------------------- Cookbook rows
\* Cookbook.objects.create(): checked takes its default, False
CreateCookbook ==
    /\ seq.cookbook < MaxCookbook
    /\ Cookbook' = Cookbook \cup {[id |-> seq.cookbook + 1, checked |-> FALSE]}
    /\ seq' = [seq EXCEPT !.cookbook = @ + 1]
    /\ UNCHANGED <<CookbookTag, Step, Material, TagCookbookRelationship,
                   MaterialStepRelationship, req>>

\* cookbook.checked = b; cookbook.save()
SetChecked(c, b) ==
    /\ c \in Cookbook
    /\ c.checked # b
    /\ Cookbook' = (Cookbook \ {c}) \cup {[c EXCEPT !.checked = b]}
    /\ UNCHANGED <<CookbookTag, Step, Material, TagCookbookRelationship,
                   MaterialStepRelationship, seq, req>>

\* a delete whose cascade stops at the steps: their join rows stay
DeleteCookbook_steps_only(c) ==
    /\ c \in Cookbook
    /\ Cookbook' = Cookbook \ {c}
    /\ Step' = {s \in Step : s.cookbook # c.id}
    /\ TagCookbookRelationship' =
           {l \in TagCookbookRelationship : l.cookbook # c.id}
    /\ UNCHANGED <<CookbookTag, Material, MaterialStepRelationship, seq, req>>

\* cookbook.delete(): on_delete=CASCADE follows Step.cookbook,
\* TagCookbookRelationship.cookbook and, from the deleted steps,
\* MaterialStepRelationship.step
DeleteCookbook(c) ==
    /\ c \in Cookbook
    /\ LET gone == {s \in Step : s.cookbook = c.id}
       IN /\ Cookbook' = Cookbook \ {c}
          /\ Step' = Step \ gone
          /\ MaterialStepRelationship' =
                 {l \in MaterialStepRelationship : l.step \notin Ids(gone)}
          /\ TagCookbookRelationship' =
                 {l \in TagCookbookRelationship : l.cookbook # c.id}
    /\ UNCHANGED <<CookbookTag, Material, seq, req>>

\* ------------------------------------------------------- CookbookTag rows
\* CookbookTag.objects.create(name=n): priority and cookbook_sum default to 0
CreateTag(n) ==
    /\ seq.tag < MaxTag
    /\ CookbookTag' = CookbookTag \cup
           {[id |-> seq.tag + 1, name |-> n, priority |-> 0, cookbook_sum |-> 0]}
    /\ seq' = [seq EXCEPT !.tag = @ + 1]
    /\ UNCHANGED <<Cookbook, Step, Material, TagCookbookRelationship,
                   MaterialStepRelationship, req>>

\* another request renames a tag: UPDATE ... SET name = n WHERE id = t.id
SetTagName(t, n) ==
    /\ t \in CookbookTag
    /\ t.name # n
    /\ CookbookTag' = (CookbookTag \ {t}) \cup {[t EXCEPT !.name = n]}
    /\ UNCHANGED <<Cookbook, Step, Material, TagCookbookRelationship,
                   MaterialStepRelationship, seq, req>>

\* another request changes a tag's priority
SetTagPriority(t, p) ==
    /\ t \in CookbookTag
    /\ t.priority # p
    /\ CookbookTag' = (CookbookTag \ {t}) \cup {[t EXCEPT !.priority = p]}
    /\ UNCHANGED <<Cookbook, Step, Material, TagCookbookRelationship,
                   MaterialStepRelationship, seq, req>>

\* ------------------------------------------------------- Cookbook.add_tag
\* TagCookbookRelationship.objects.filter(cookbook=self, tag=tag)
tag_rows(c, t) ==
    {l \in TagCookbookRelationship : l.cookbook = c /\ l.tag = t}

\* requests that passed the existence check and have not inserted yet
Inserting == {r \in Requests : req[r].pc = "add_tag_create"}

\* line 166-167: if ...filter(cookbook=self, tag=tag).exists(): return
add_tag_exists(r, c, t) ==
    /\ req[r].pc = "idle"
    /\ c \in Cookbook
    /\ t \in CookbookTag
    /\ IF tag_rows(c.id, t.id) # {}
       THEN req' = req
       ELSE /\ seq.tcr + Cardinality(Inserting) < MaxTagRow
            /\ req' = [req EXCEPT ![r] = [pc |-> "add_tag_create",
                                           cookbook |-> c.id, tag |-> t.id]]
    /\ UNCHANGED tables

\* an add_tag that recomputes the tag's cookbook_sum after its insert
add_tag_create_push(r) ==
    /\ req[r].pc = "add_tag_create"
    /\ IF req[r].cookbook \in Ids(Cookbook) /\ req[r].tag \in Ids(CookbookTag)
       THEN /\ TagCookbookRelationship' = TagCookbookRelationship \cup
                   {[id |-> seq.tcr + 1, cookbook |-> req[r].cookbook,
                     tag |-> req[r].tag, like |-> 0, unlike |-> 0]}
            /\ seq' = [seq EXCEPT !.tcr = @ + 1]
            /\ CookbookTag' =
                   {IF t.id = req[r].tag
                    THEN [t EXCEPT !.cookbook_sum =
                             Cardinality({l \in TagCookbookRelationship' :
                                             l.tag = t.id})]
                    ELSE t : t \in CookbookTag}
       ELSE UNCHANGED <<TagCookbookRelationship, seq, CookbookTag>>
    /\ req' = [req EXCEPT ![r] = Idle]
    /\ UNCHANGED <<Cookbook, Step, Material, MaterialStepRelationship>>

\* line 168-170: TagCookbookRelationship.objects.create(tag=tag, cookbook=self);
\* like and unlike default to 0.  The INSERT of a row whose cookbook or tag
\* is gone violates the foreign key: it raises and inserts nothing.
add_tag_create(r) ==
    /\ req[r].pc = "add_tag_create"
    /\ IF req[r].cookbook \in Ids(Cookbook) /\ req[r].tag \in Ids(CookbookTag)
       THEN /\ TagCookbookRelationship' = TagCookbookRelationship \cup
                   {[id |-> seq.tcr + 1, cookbook |-> req[r].cookbook,
                     tag |-> req[r].tag, like |-> 0, unlike |-> 0]}
            /\ seq' = [seq EXCEPT !.tcr = @ + 1]
       ELSE UNCHANGED <<TagCookbookRelationship, seq>>
    /\ req' = [req EXCEPT ![r] = Idle]
    /\ UNCHANGED <<Cookbook, CookbookTag, Step, Material, MaterialStepRelationship>>

\* ------------------------------------------- CookbookTag.update_cookbook_sum
\* the caller loads the instance: CookbookTag.objects.get(id=t.id)
get_tag(r, t) ==
    /\ req[r].pc = "idle"
    /\ t \in CookbookTag
    /\ req' = [req EXCEPT ![r] = [pc |-> "loaded", self |-> t]]
    /\ UNCHANGED tables

\* self.cookbook_set.count(): SELECT COUNT(*) FROM cookbook INNER JOIN
\* tagcookbookrelationship ON cookbook.id = cookbook_id WHERE tag_id = t
cookbook_set_count(t) ==
    Cardinality({p \in Cookbook \X TagCookbookRelationship :
                    p[2].cookbook = p[1].id /\ p[2].tag = t})

\* line 29: self.cookbook_sum = self.cookbook_set.count()
update_cookbook_sum_count(r) ==
    /\ req[r].pc = "loaded"
    /\ req' = [req EXCEPT ![r] =
                  [pc |-> "counted",
                   self |-> [req[r].self EXCEPT
                                !.cookbook_sum = cookbook_set_count(req[r].self.id)]]]
    /\ UNCHANGED tables

\* Model.save() without update_fields: UPDATE cookbooktag SET name, priority,
\* cookbook_sum = <the instance's> WHERE id = <the instance's>
save(inst) ==
    {row \in CookbookTag : row.id # inst.id} \cup {inst}

\* line 30: self.save()
update_cookbook_sum_save(r) ==
    /\ req[r].pc = "counted"
    /\ CookbookTag' = save(req[r].self)
    /\ req' = [req EXCEPT ![r] = Idle]
    /\ UNCHANGED <<Cookbook, Step, Material, TagCookbookRelationship,
                   MaterialStepRelationship, seq>>

\* ------------------------------------------------- Step and Material rows
\* Step.objects.create(cookbook=c): the owning cookbook is required
CreateStep(c) ==
    /\ seq.step < MaxStep
    /\ c \in Cookbook
    /\ Step' = Step \cup {[id |-> seq.step + 1, cookbook |-> c.id]}
    /\ seq' = [seq EXCEPT !.step = @ + 1]
    /\ UNCHANGED <<Cookbook, CookbookTag, Material, TagCookbookRelationship,
                   MaterialStepRelationship, req>>

\* Material.objects.create(type=ty)
CreateMaterial(ty) ==
    /\ seq.material < MaxMaterial
    /\ Material' = Material \cup {[id |-> seq.material + 1, type |-> ty]}
    /\ seq' = [seq EXCEPT !.material = @ + 1]
    /\ UNCHANGED <<Cookbook, CookbookTag, Step, TagCookbookRelationship,
                   MaterialStepRelationship, req>>

\* MaterialStepRelationship.objects.create(step=s, material=m, priority=p):
\* nothing keeps a (step, material) pair from being linked twice
CreateMaterialStepRelationship(s, m, p) ==
    /\ seq.msr < MaxLinkRow
    /\ s \in Step
    /\ m \in Material
    /\ MaterialStepRelationship' = MaterialStepRelationship \cup
           {[id |-> seq.msr + 1, step |-> s.id, material |-> m.id, priority |-> p]}
    /\ seq' = [seq EXCEPT !.msr = @ + 1]
    /\ UNCHANGED <<Cookbook, CookbookTag, Step, Material,
                   TagCookbookRelationship, req>>

\* ------------------------------------------------------------ Step queries
\* ORDER BY material.id alone
order_by_id(a, b) == a.material <= b.material

\* ORDER BY materialsteprelationship.priority, material.id
order_by(a, b) ==
    \/ a.priority < b.priority
    \/ a.priority = b.priority /\ a.material <= b.material

RECURSIVE Sorted(_)
Sorted(rows) ==
    IF rows = {} THEN <<>>
    ELSE LET first == CHOOSE x \in rows : \A y \in rows : order_by(x, y)
         IN <<first>> \o Sorted(rows \ {first})

\* the join rows of step s in the order of get_material_set
material_links(s) ==
    Sorted({l \in MaterialStepRelationship :
               l.step = s /\ l.material \in Ids(Material)})

\* Step.get_material_set: one Material per join row of the step
get_material_set(s) ==
    LET links == material_links(s)
    IN [i \in 1..Len(links) |-> Get(Material, links[i].material)]

RECURSIVE Filter(_, _)
Filter(ms, ty) ==
    IF ms = <<>> THEN <<>>
    ELSE (IF Head(ms).type = ty THEN <<Head(ms)>> ELSE <<>>) \o Filter(Tail(ms), ty)

\* Step.get_material_set_by_type
get_material_set_by_type(s, material_type_value) ==
    Filter(get_material_set(s), material_type_value)

\* materials_tool reading the condiments
materials_tool_condiment(s) == get_material_set_by_type(s, CONDIMENT)

materials_food(s) == get_material_set_by_type(s, FOOD)
materials_tool(s) == get_material_set_by_type(s, TOOL)
materials_condiment(s) == get_material_set_by_type(s, CONDIMENT)

\* --------------------------------------------------------- Cookbook.materials
\* Material.objects.filter(step__cookbook=self): material INNER JOIN
\* materialsteprelationship INNER JOIN step WHERE step.cookbook_id = c, one
\* result row per joined row and no DISTINCT; the bag of the Materials returned
materials(c) ==
    LET joined(m) == {p \in MaterialStepRelationship \X Step :
                         /\ p[1].material = m.id
                         /\ p[1].step = p[2].id
                         /\ p[2].cookbook = c}
        hit == {m \in Material : joined(m) # {}}
    IN [m \in hit |-> Cardinality(joined(m))]

\* ---------------------------------------------------- the add_tag history
\* calls records the run of add_tag calls on one (cookbook, tag) pair that
\* were executed whole, one after the other, up to the current state: n of
\* them are complete (2 stands for two or more) and, when open is a request,
\* that request's call has just passed its existence check.
Streak(c, t) ==
    IF calls.open = 0 /\ calls.cookbook = c /\ calls.tag = t THEN calls.n ELSE 0

OneMore(n) == IF n >= 1 THEN 2 ELSE 1

AfterExists(r, c, t) ==
    IF tag_rows(c.id, t.id) # {}
    THEN [n |-> OneMore(Streak(c.id, t.id)), open |-> 0,
          cookbook |-> c.id, tag |-> t.id]
    ELSE [n |-> Streak(c.id, t.id), open |-> r, cookbook |-> c.id, tag |-> t.id]

AfterCreate(r) ==
    IF calls.open = r
    THEN [n |-> OneMore(calls.n), open |-> 0,
          cookbook |-> req[r].cookbook, tag |-> req[r].tag]
    ELSE NoCalls

\* ------------------------------------------------------------------- next
\* the whole program
Next ==
    \/ CreateCookbook /\ calls' = NoCalls
    \/ \E c \in Cookbook, b \in BOOLEAN : SetChecked(c, b) /\ calls' = NoCalls
    \/ \E c \in Cookbook : DeleteCookbook(c) /\ calls' = NoCalls
    \/ \E n \in TagNames : CreateTag(n) /\ calls' = NoCalls
    \/ \E t \in CookbookTag, n \in TagNames : SetTagName(t, n) /\ calls' = NoCalls
    \/ \E t \in CookbookTag, p \in Priorities :
           SetTagPriority(t, p) /\ calls' = NoCalls
    \/ \E r \in Requests, c \in Cookbook, t \in CookbookTag :
           add_tag_exists(r, c, t) /\ calls' = AfterExists(r, c, t)
    \/ \E r \in Requests : add_tag_create(r) /\ calls' = AfterCreate(r)
    \/ \E r \in Requests, t \in CookbookTag : get_tag(r, t) /\ calls' = NoCalls
    \/ \E r \in Requests : update_cookbook_sum_count(r) /\ calls' = NoCalls
    \/ \E r \in Requests : update_cookbook_sum_save(r) /\ calls' = NoCalls
    \/ \E c \in Cookbook : CreateStep(c) /\ calls' = NoCalls
    \/ \E ty \in MaterialType : CreateMaterial(ty) /\ calls' = NoCalls
    \/ \E s \in Step, m \in Material, p \in Priorities :
           CreateMaterialStepRelationship(s, m, p) /\ calls' = NoCalls

Spec == Init /\ [][Next]_vars

\* the two scopes over cookbooks that are created, checked, unchecked and
\* deleted, with the steps and tags beside them; the history is not kept
NextScope ==
    \/ CreateCookbook /\ UNCHANGED calls
    \/ \E c \in Cookbook, b \in BOOLEAN : SetChecked(c, b) /\ UNCHANGED calls
    \/ \E c \in Cookbook : DeleteCookbook(c) /\ UNCHANGED calls
    \/ \E c \in Cookbook : CreateStep(c) /\ UNCHANGED calls
    \/ \E n \in TagNames : CreateTag(n) /\ UNCHANGED calls

SpecScope == Init /\ [][NextScope]_vars

\* add_tag under concurrent requests, on cookbooks that come and go
NextAddTag ==
    \/ CreateCookbook /\ calls' = NoCalls
    \/ \E c \in Cookbook : DeleteCookbook(c) /\ calls' = NoCalls
    \/ \E n \in TagNames : CreateTag(n) /\ calls' = NoCalls
    \/ \E r \in Requests, c \in Cookbook, t \in CookbookTag :
           add_tag_exists(r, c, t) /\ calls' = AfterExists(r, c, t)
    \/ \E r \in Requests : add_tag_create(r) /\ calls' = AfterCreate(r)

SpecAddTag == Init /\ [][NextAddTag]_vars

\* update_cookbook_sum beside add_tag and tag edits; the history is not kept
NextSum ==
    \/ CreateCookbook /\ UNCHANGED calls
    \/ \E c \in Cookbook : DeleteCookbook(c) /\ UNCHANGED calls
    \/ \E n \in TagNames : CreateTag(n) /\ UNCHANGED calls
    \/ \E t \in CookbookTag, n \in TagNames : SetTagName(t, n) /\ UNCHANGED calls
    \/ \E t \in CookbookTag, p \in Priorities :
           SetTagPriority(t, p) /\ UNCHANGED calls
    \/ \E r \in Requests, c \in Cookbook, t \in CookbookTag :
           add_tag_exists(r, c, t) /\ UNCHANGED calls
    \/ \E r \in Requests : add_tag_create(r) /\ UNCHANGED calls
    \/ \E r \in Requests, t \in CookbookTag : get_tag(r, t) /\ UNCHANGED calls
    \/ \E r \in Requests : update_cookbook_sum_count(r) /\ UNCHANGED calls
    \/ \E r \in Requests : update_cookbook_sum_save(r) /\ UNCHANGED calls

SpecSum == Init /\ [][NextSum]_vars

\* steps, materials and their links; the history is not kept
NextStep ==
    \/ CreateCookbook /\ UNCHANGED calls
    \/ \E c \in Cookbook : DeleteCookbook(c) /\ UNCHANGED calls
    \/ \E c \in Cookbook : CreateStep(c) /\ UNCHANGED calls
    \/ \E ty \in MaterialType : CreateMaterial(ty) /\ UNCHANGED calls
    \/ \E s \in Step, m \in Material, p \in Priorities :
           CreateMaterialStepRelationship(s, m, p) /\ UNCHANGED calls

SpecStep == Init /\ [][NextStep]_vars

\* every table filled, then cookbooks deleted; one request, one tag name,
\* one material type and one priority: the cascade reads none of them
NextDelete ==
    \/ CreateCookbook /\ UNCHANGED calls
    \/ \E c \in Cookbook : DeleteCookbook(c) /\ UNCHANGED calls
    \/ CreateTag("soup") /\ UNCHANGED calls
    \/ \E c \in Cookbook, t \in CookbookTag :
           add_tag_exists(1, c, t) /\ UNCHANGED calls
    \/ add_tag_create(1) /\ UNCHANGED calls
    \/ \E c \in Cookbook : CreateStep(c) /\ UNCHANGED calls
    \/ CreateMaterial(FOOD) /\ UNCHANGED calls
    \/ \E s \in Step, m \in Material :
           CreateMaterialStepRelationship(s, m, 0) /\ UNCHANGED calls

SpecDelete == Init /\ [][NextDelete]_vars

\* ----------------------------------------------------------------- claims

\* ------------------------------------------------------------------ C1, C2
\* C1: after add_tag(C, Tg) ran twice in sequence with nothing in between,
\* exactly one TagCookbookRelationship row exists for (C, Tg), and the
\* second call left every table as it found it.
C1_TwiceLeavesOneRow ==
    [][(calls'.n = 2 /\ calls'.open = 0)
         => /\ Cardinality(tag_rows(calls.cookbook, calls.tag))' = 1
            /\ UNCHANGED tables]_vars

\* C2: with rows created by add_tag alone, and the existence check and the
\* insert of concurrent calls interleaving, no (cookbook, tag) pair ever has
\* two rows.
C2_AtMostOneRowPerPair ==
    \A a, b \in TagCookbookRelationship :
        (a.cookbook = b.cookbook /\ a.tag = b.tag) => a = b

\* ---------------------------------------------------------------------- C3
\* the Cookbooks linked to tag t, each once
linked_cookbooks(t) ==
    {c \in Cookbook : \E l \in TagCookbookRelationship :
                          l.cookbook = c.id /\ l.tag = t}

\* C3: when update_cookbook_sum() returns, the stored cookbook_sum of its
\* tag is the number of distinct Cookbooks linked to the tag.
C3_SumIsDistinctCount ==
    [][\A r \in Requests, t \in Ids(CookbookTag) :
          (req[r].pc = "counted" /\ req[r].self.id = t
             /\ update_cookbook_sum_save(r))
            => Get(CookbookTag', t).cookbook_sum
                  = Cardinality(linked_cookbooks(t))']_vars

\* ---------------------------------------------------------------------- C4
\* Step s of the cookbook with id c is linked to Material m
step_links(c, m) ==
    \E s \in Step, l \in MaterialStepRelationship :
        s.cookbook = c /\ l.step = s.id /\ l.material = m.id

\* C4: C.materials holds a Material exactly when a Step of C is linked to
\* it, and holds it at most once.
C4_MaterialsDistinct ==
    \A c \in Cookbook, m \in Material :
        /\ BagIn(m, materials(c.id)) <=> step_links(c.id, m)
        /\ BagIn(m, materials(c.id)) => CopiesIn(m, materials(c.id)) = 1

\* ---------------------------------------------------------------------- C5
\* C5: get_material_set() returns exactly the Materials linked to the step,
\* in non-decreasing join priority, and by ascending Material id where the
\* join priorities are equal.
C5_MaterialSetOrdered ==
    \A s \in Step :
        LET ms == get_material_set(s.id)
            ls == material_links(s.id)
        IN /\ {ms[i] : i \in DOMAIN ms} =
                  {m \in Material : \E l \in MaterialStepRelationship :
                                        l.step = s.id /\ l.material = m.id}
           /\ \A i \in DOMAIN ms : ms[i].id = ls[i].material
           /\ \A i, j \in DOMAIN ms :
                  i < j => /\ ls[i].priority <= ls[j].priority
                           /\ ls[i].priority = ls[j].priority
                                  => ms[i].id <= ms[j].id

\* a step with two links of one priority and a link of another priority
\* that sorts before a lower Material id
C5_Witness ==
    \E s \in Step :
        LET ms == get_material_set(s.id)
            ls == material_links(s.id)
        IN /\ \E i, j \in DOMAIN ms :
                  i < j /\ ls[i].priority = ls[j].priority /\ ms[i].id < ms[j].id
           /\ \E i, j \in DOMAIN ms :
                  i < j /\ ls[i].priority < ls[j].priority /\ ms[i].id > ms[j].id

\* ---------------------------------------------------------------------- C6
\* sequence a is sequence b with some entries left out
RECURSIVE IsSubsequence(_, _)
IsSubsequence(a, b) ==
    IF a = <<>> THEN TRUE
    ELSE IF b = <<>> THEN FALSE
    ELSE IF Head(a) = Head(b) THEN IsSubsequence(Tail(a), Tail(b))
    ELSE IsSubsequence(a, Tail(b))

\* view is the typed filter of all for variant v
TypedView(view, all, v) ==
    /\ \A i \in DOMAIN view : view[i].type = v
    /\ Len(view) = Cardinality({i \in DOMAIN all : all[i].type = v})
    /\ IsSubsequence(view, all)

\* C6: get_material_set_by_type(V) returns Materials of type V only, all of
\* those get_material_set() returns, as a subsequence of it; materials_food,
\* materials_condiment and materials_tool are this filter for FOOD,
\* CONDIMENT and TOOL.
C6_TypedFilter ==
    \A s \in Step :
        LET all == get_material_set(s.id)
        IN /\ \A v \in MaterialType :
                  TypedView(get_material_set_by_type(s.id, v), all, v)
           /\ TypedView(materials_food(s.id), all, FOOD)
           /\ TypedView(materials_condiment(s.id), all, CONDIMENT)
           /\ TypedView(materials_tool(s.id), all, TOOL)

\* a step whose materials are of two types, one of them linked twice
C6_Witness ==
    \E s \in Step, v, w \in MaterialType :
        /\ v # w
        /\ Len(get_material_set(s.id)) >= 3
        /\ Len(get_material_set_by_type(s.id, v)) >= 2
        /\ Len(get_material_set_by_type(s.id, w)) >= 1

\* ---------------------------------------------------------------------- C7
\* C7: the public scope is the existing Cookbooks with checked = TRUE and the
\* unfiltered scope is every existing Cookbook; a new Cookbook is outside
\* the public scope, and enters it when checked is set to TRUE.
C7_PublicScope ==
    /\ [](/\ Ids(objects) = Ids(Cookbook)
          /\ \A c \in Cookbook : c \in public <=> c.checked = TRUE
          /\ public \subseteq Cookbook)
    /\ [][/\ \A c \in Cookbook' : c.id \notin Ids(Cookbook) => c \notin public'
          /\ \A c \in Cookbook :
                 SetChecked(c, TRUE) => c.id \in Ids(public') \ Ids(public)
          /\ \A c \in Cookbook :
                 (c.id \in Ids(public') /\ c.id \notin Ids(public))
                     => SetChecked(c, TRUE)]_vars

\* one cookbook was made public, a later one is still unchecked
C7_Witness ==
    \E c, d \in Cookbook : c \in public /\ d \notin public /\ c.id < d.id

\* ---------------------------------------------------------------------- C8
\* C8: deleting a Cookbook removes its Steps, their MaterialStepRelationship
\* rows and its TagCookbookRelationship rows, and removes no Material and
\* no CookbookTag.
C8_DeleteCascade ==
    [][\A c \in Cookbook :
          c.id \notin Ids(Cookbook')
            => LET owned == {s \in Step : s.cookbook = c.id}
               IN /\ Step' = Step \ owned
                  /\ \A l \in MaterialStepRelationship :
                         l \in MaterialStepRelationship' <=> l.step \notin Ids(owned)
                  /\ MaterialStepRelationship' \subseteq MaterialStepRelationship
                  /\ \A l \in TagCookbookRelationship :
                         l \in TagCookbookRelationship' <=> l.cookbook # c.id
                  /\ TagCookbookRelationship' \subseteq TagCookbookRelationship
                  /\ Material' = Material
                  /\ CookbookTag' = CookbookTag]_vars

\* every cookbook is deleted and took its steps, links and tag rows along;
\* a material that had been linked, and a tag, are still there
C8_Witness ==
    /\ seq.cookbook > 0 /\ Cookbook = {}
    /\ seq.step > 0 /\ Step = {}
    /\ seq.msr > 0 /\ MaterialStepRelationship = {}
    /\ seq.tcr > 0 /\ TagCookbookRelationship = {}
    /\ Material # {}
    /\ CookbookTag # {}

\* ---------------------------------------------------------------------- C9
\* C9: add_tag changes no cookbook_sum; a tag's stored cookbook_sum changes
\* only in the save of update_cookbook_sum() on that tag.
C9_SumOnlyByUpdate ==
    [][/\ \A t \in CookbookTag :
              Get(CookbookTag', t.id).cookbook_sum # t.cookbook_sum
                  => \E r \in Requests :
                         /\ req[r].pc = "counted"
                         /\ req[r].self.id = t.id
                         /\ update_cookbook_sum_save(r)
       /\ TagCookbookRelationship' # TagCookbookRelationship
              => \A t \in CookbookTag :
                     Get(CookbookTag', t.id).cookbook_sum = t.cookbook_sum]_vars

\* add_tag inserted a row for a tag whose stored count is still 0
C9_Witness ==
    \E t \in CookbookTag :
        /\ t.cookbook_sum = 0
        /\ \E l \in TagCookbookRelationship : l.tag = t.id

\* --------------------------------------------------------------------- C10
\* C10: update_cookbook_sum() on tag T changes the stored cookbook_sum of T
\* and nothing else: not T's stored name or priority, no other tag, no
\* other table.
C10_SaveWritesSumOnly ==
    [][\A r \in Requests, t \in Ids(CookbookTag) :
          (req[r].pc = "counted" /\ req[r].self.id = t
             /\ update_cookbook_sum_save(r))
            => /\ Get(CookbookTag', t).name = Get(CookbookTag, t).name
               /\ Get(CookbookTag', t).priority = Get(CookbookTag, t).priority
               /\ \A u \in CookbookTag : u.id # t => u \in CookbookTag'
               /\ UNCHANGED <<Cookbook, Step, Material, TagCookbookRelationship,
                              MaterialStepRelationship>>]_vars
====
